---- MODULE Spec2Model ----
(* Status-polling and schema-validation pipeline of the zapper VS Code      *)
(* extension: zod schemas (types.ts), the four fetchers and                 *)
(* getAllZapperStatuses (zapperService.ts), and the polling provider        *)
(* (zapperProvider.ts).                                                     *)
EXTENDS Integers, Sequences, FiniteSets, TLC

(***************************************************************************)
(* Bounds                                                                  *)
(***************************************************************************)
MaxEntries == 2      \* longest JSON array drawn as an input
MaxPolls == 2        \* polls started in one behaviour
MaxSpawns == 8       \* subprocesses spawned in one behaviour
MaxChunks == 2       \* data events of one subprocess

(***************************************************************************)
(* JSON values: what JSON.parse returns.  Every value is a tagged record   *)
(* so that values of different JSON types can be compared.                 *)
(***************************************************************************)
JNull == [t |-> "null"]
JNum == [t |-> "num"]
JStr(s) == [t |-> "str", s |-> s]
JArr(a) == [t |-> "arr", a |-> a]
JObj(o) == [t |-> "obj", o |-> o]

\* Marker used only while building objects: the key is left out.
Absent == [t |-> "absent"]

MkObj(f) == JObj([k \in {x \in DOMAIN f : f[x] # Absent} |-> f[k]])

IsStr(v) == v.t = "str"
IsArr(v) == v.t = "arr"
IsObj(v) == v.t = "obj"
Has(v, k) == k \in DOMAIN v.o

\* null of a nullable TypeScript value, and a present value
Null == [null |-> TRUE]
Some(x) == [null |-> FALSE, v |-> x]

\* result of zod's safeParse
Failure == [success |-> FALSE]
Success(d) == [success |-> TRUE, data |-> d]

(***************************************************************************)
(* types.ts: the schemas                                                   *)
(***************************************************************************)
ServiceTypeEnum == {"native", "bare_metal", "docker"}

\* a transform that keeps the tag as it was written
TypeTransformKeep(t) == t

\* .transform(t => t === 'bare_metal' ? 'native' : t)
TypeTransform(t) == IF t = "bare_metal" THEN "native" ELSE t

RequiredEntryKeys == {"service", "rawName", "status", "type"}

StrOrEmpty(v, k) == IF Has(v, k) /\ IsStr(v.o[k]) THEN v.o[k].s ELSE ""

ServiceStatusSchemaLenient(v) ==
  IF ~IsObj(v) THEN Failure
  ELSE Success([service |-> StrOrEmpty(v, "service"),
                rawName |-> StrOrEmpty(v, "rawName"),
                status |-> StrOrEmpty(v, "status"),
                type |-> TypeTransform(StrOrEmpty(v, "type"))])

\* z.object({service, rawName, status, type, cwd?}): unknown keys are
\* stripped, cwd is kept only when present.
ServiceStatusSchema(v) ==
  IF ~IsObj(v) THEN Failure
  ELSE IF \E k \in RequiredEntryKeys : ~Has(v, k) \/ ~IsStr(v.o[k]) THEN Failure
  ELSE IF v.o["type"].s \notin ServiceTypeEnum THEN Failure
  ELSE IF Has(v, "cwd") /\ ~IsStr(v.o["cwd"]) THEN Failure
  ELSE LET base == [service |-> v.o["service"].s,
                    rawName |-> v.o["rawName"].s,
                    status |-> v.o["status"].s,
                    type |-> TypeTransform(v.o["type"].s)]
       IN Success(IF Has(v, "cwd")
                  THEN [k \in DOMAIN base \cup {"cwd"} |->
                          IF k = "cwd" THEN v.o["cwd"].s ELSE base[k]]
                  ELSE base)

TaskNameSchema(v) ==
  IF ~IsObj(v) THEN Failure
  ELSE IF ~Has(v, "name") \/ ~IsStr(v.o["name"]) THEN Failure
  ELSE Success([name |-> v.o["name"].s])

ZString(v) == IF IsStr(v) THEN Success(v.s) ELSE Failure

\* the element schema of the three z.array schemas
ElementSchema(of, e) ==
  CASE of = "ServiceStatus" -> ServiceStatusSchema(e)
    [] of = "TaskName" -> TaskNameSchema(e)
    [] of = "string" -> ZString(e)

\* z.array(schema): every element must validate; the data are the
\* validated elements in order.
ZArray(v, of) ==
  IF ~IsArr(v) THEN Failure
  ELSE IF \E i \in 1..Len(v.a) : ~ElementSchema(of, v.a[i]).success THEN Failure
  ELSE Success([i \in 1..Len(v.a) |-> ElementSchema(of, v.a[i]).data])

\* z.array(ServiceStatusSchema).default([]) applied to one key of an object
ArrayFieldDefault(obj, k) ==
  IF ~Has(obj, k) THEN Success(<<>>) ELSE ZArray(obj.o[k], "ServiceStatus")

WithKey(obj, k, val) ==
  JObj([x \in DOMAIN obj.o \cup {k} |-> IF x = k THEN val ELSE obj.o[x]])

StatusPreprocessNoAlias(raw) == raw

\* the z.preprocess callback of ZapperStatusSchema: legacy aliases
StatusPreprocess(raw) ==
  IF ~IsObj(raw) THEN raw
  ELSE IF ~Has(raw, "bareMetal") /\ Has(raw, "native")
       THEN WithKey(raw, "bareMetal", raw.o["native"])
  ELSE IF ~Has(raw, "bareMetal") /\ Has(raw, "bare_metal")
       THEN WithKey(raw, "bareMetal", raw.o["bare_metal"])
  ELSE raw

ZapperStatusSchema(raw) ==
  LET v == StatusPreprocess(raw) IN
  IF ~IsObj(v) THEN Failure
  ELSE LET bm == ArrayFieldDefault(v, "bareMetal")
           dk == ArrayFieldDefault(v, "docker")
       IN IF ~bm.success \/ ~dk.success THEN Failure
          ELSE Success([bareMetal |-> bm.data, docker |-> dk.data])

ZapperTasksSchema(raw) == ZArray(raw, "TaskName")

ZapperProfilesSchema(raw) == ZArray(raw, "string")

\* activeProfile: z.string().optional().nullable(); lastUpdated: z.string()
ZapperStateSchema(raw) ==
  IF ~IsObj(raw) THEN Failure
  ELSE IF ~Has(raw, "lastUpdated") \/ ~IsStr(raw.o["lastUpdated"]) THEN Failure
  ELSE IF ~Has(raw, "activeProfile")
       THEN Success([lastUpdated |-> raw.o["lastUpdated"].s])
  ELSE IF raw.o["activeProfile"] = JNull
       THEN Success([lastUpdated |-> raw.o["lastUpdated"].s, activeProfile |-> Null])
  ELSE IF IsStr(raw.o["activeProfile"])
       THEN Success([lastUpdated |-> raw.o["lastUpdated"].s,
                     activeProfile |-> Some(raw.o["activeProfile"].s)])
  ELSE Failure

(***************************************************************************)
(* zapperService.ts: the command runner and the four fetchers              *)
(***************************************************************************)
\* The text a subprocess wrote to stdout: either the serialisation of a
\* JSON value, or something JSON.parse rejects.
NotJson == [json |-> FALSE, v |-> JNull]
JsonText(v) == [json |-> TRUE, v |-> v]

\* JSON.parse: a value, or a thrown SyntaxError
JSONParse(text) == IF text.json THEN [threw |-> FALSE, v |-> text.v] ELSE [threw |-> TRUE]

\* How a spawned subprocess ends: it closes with an exit code, or it
\* cannot be launched and the child emits 'error'.
ProcClose(code, stdout) == [ev |-> "close", code |-> code, stdout |-> stdout]
ProcError == [ev |-> "error", code |-> -2, stdout |-> NotJson]

\* executeZapCommand: the promise resolves with stdout on exit code 0 and
\* rejects in every other case.
executeZapCommandIgnoreCode(proc) ==
  IF proc.ev = "close"
  THEN [resolved |-> TRUE, value |-> proc.stdout]
  ELSE [resolved |-> FALSE]

executeZapCommand(proc) ==
  IF proc.ev = "close" /\ proc.code = 0
  THEN [resolved |-> TRUE, value |-> proc.stdout]
  ELSE [resolved |-> FALSE]

\* A fetcher either returns (a value or null) or throws.
Return(x) == [threw |-> FALSE, ret |-> x]
Throw == [threw |-> TRUE]

Kinds == {"status", "tasks", "profiles", "state"}

\* the schema each fetcher validates with
SchemaOf(kind, raw) ==
  CASE kind = "status" -> ZapperStatusSchema(raw)
    [] kind = "tasks" -> ZapperTasksSchema(raw)
    [] kind = "profiles" -> ZapperProfilesSchema(raw)
    [] kind = "state" -> ZapperStateSchema(raw)

\* the try block shared by the four fetchers, given how the promise of
\* executeZapCommand settled
TryFetchOn(output, kind) ==
  IF ~output.resolved THEN Throw
  ELSE LET rawData == JSONParse(output.value) IN
       IF rawData.threw THEN Throw
       ELSE LET validationResult == SchemaOf(kind, rawData.v) IN
            IF ~validationResult.success THEN Return(Null)
            ELSE Return(Some(validationResult.data))

TryFetch(proc, kind) == TryFetchOn(executeZapCommand(proc), kind)

\* the catch block: log and return null
CatchFetch(t) == IF t.threw THEN Return(Null) ELSE t

getZapperStatusForProject(proc) == CatchFetch(TryFetch(proc, "status"))

getZapperTasksForProject(proc) == CatchFetch(TryFetch(proc, "tasks"))

getZapperProfilesForProject(proc) == CatchFetch(TryFetch(proc, "profiles"))

getZapperStateForProject(proc) == CatchFetch(TryFetch(proc, "state"))

Fetcher(kind, proc) ==
  CASE kind = "status" -> getZapperStatusForProject(proc)
    [] kind = "tasks" -> getZapperTasksForProject(proc)
    [] kind = "profiles" -> getZapperProfilesForProject(proc)
    [] kind = "state" -> getZapperStateForProject(proc)

(***************************************************************************)
(* Inputs of the fetcher specification                                     *)
(***************************************************************************)
EntryInputs ==
  {MkObj([service |-> sv, rawName |-> rn, status |-> st, type |-> ty, cwd |-> cw]) :
     sv \in {Absent, JStr("api"), JNum},
     rn \in {Absent, JStr("zap.api")},
     st \in {Absent, JStr("up")},
     ty \in {Absent, JStr("native"), JStr("bare_metal"), JStr("docker"), JStr("process")},
     cw \in {Absent, JStr("/w")}}
  \cup {MkObj([service |-> JStr("api"), rawName |-> JStr("zap.api"),
               status |-> JStr("up"), type |-> JStr("docker"), cwd |-> JNull])}

GoodEntry(ty) ==
  MkObj([service |-> JStr("api"), rawName |-> JStr("zap.api"),
         status |-> JStr("up"), type |-> JStr(ty)])

GoodEntries == {GoodEntry(ty) : ty \in ServiceTypeEnum}

\* arrays of at most n entries in which only the last entry may be defective
EntryLists(n) ==
  {<<>>} \cup UNION {{Append(p, e) : p \in [1..(k - 1) -> GoodEntries], e \in EntryInputs} :
                      k \in 1..n}

StatusKeys == {"bareMetal", "native", "bare_metal", "docker"}

\* {"bareMetal":[{"service":"api","rawName":"api","status":"up",
\*   "type":"bare_metal"}],"docker":[]}
LegacyTagStatus ==
  MkObj([bareMetal |-> JArr(<<MkObj([service |-> JStr("api"), rawName |-> JStr("api"),
                                      status |-> JStr("up"),
                                      type |-> JStr("bare_metal")])>>),
         docker |-> JArr(<<>>)])

StatusRawInputs ==
  {JNull, JNum, JArr(<<>>), LegacyTagStatus}
  \cup {MkObj([k \in StatusKeys |-> IF k = K THEN rich ELSE other[k]]) :
          K \in StatusKeys,
          rich \in {JNull} \cup {JArr(l) : l \in EntryLists(MaxEntries)},
          other \in [StatusKeys -> {Absent, JArr(<<>>), JArr(<<GoodEntry("native")>>)}]}

SeqsUpTo(S, n) == UNION {[1..k -> S] : k \in 0..n}

TasksRawInputs ==
  {JNull, MkObj([name |-> JStr("build")])}
  \cup {JArr(l) : l \in SeqsUpTo({MkObj([name |-> JStr("build")]),
                                  MkObj([name |-> JStr("test"), description |-> JStr("d")]),
                                  MkObj([name |-> JNum]),
                                  MkObj([description |-> JStr("d")]),
                                  JStr("build")}, MaxEntries)}

ProfilesRawInputs ==
  {JNull, JStr("dev")}
  \cup {JArr(l) : l \in SeqsUpTo({JStr("dev"), JStr("prod"), JNum, JNull,
                                  MkObj([name |-> JStr("dev")])}, MaxEntries)}

StateRawInputs ==
  {JNull, JArr(<<>>)}
  \cup {MkObj([activeProfile |-> ap, lastUpdated |-> lu]) :
          ap \in {Absent, JNull, JStr(""), JStr("dev"), JNum},
          lu \in {Absent, JStr("2024-01-01"), JNum}}

RawInputs(kind) ==
  CASE kind = "status" -> StatusRawInputs
    [] kind = "tasks" -> TasksRawInputs
    [] kind = "profiles" -> ProfilesRawInputs
    [] kind = "state" -> StateRawInputs

ProcInputs(kind) ==
  {ProcError}
  \cup {ProcClose(c, NotJson) : c \in {0, 1}}
  \cup {ProcClose(0, JsonText(v)) : v \in RawInputs(kind)}
  \cup {ProcClose(1, JsonText(v)) : v \in {JNull, JArr(<<>>), MkObj(<<>>)}}

(***************************************************************************)
(* Outcomes of the CLI seen by the polling provider                        *)
(***************************************************************************)
\* What the external CLI prints for each subcommand when it succeeds.  It
\* depends on the project's zap.yaml: /a defines services, tasks and
\* profiles, /b defines nothing, and the current directory defines one
\* container and one profile that is not active.
CliOutput(dir) ==
  CASE dir = "/a" ->
         [status |-> JsonText(MkObj([native |-> JArr(<<GoodEntry("bare_metal")>>),
                                     docker |-> JArr(<<GoodEntry("docker")>>)])),
          tasks |-> JsonText(JArr(<<MkObj([name |-> JStr("build")])>>)),
          profiles |-> JsonText(JArr(<<JStr("dev"), JStr("prod")>>)),
          state |-> JsonText(MkObj([activeProfile |-> JStr("dev"),
                                    lastUpdated |-> JStr("2024-01-01")]))]
    [] dir = "/b" ->
         [status |-> JsonText(MkObj(<<>>)),
          tasks |-> JsonText(JArr(<<>>)),
          profiles |-> JsonText(JArr(<<>>)),
          state |-> JsonText(MkObj([lastUpdated |-> JStr("2024-01-01")]))]
    [] OTHER ->
         [status |-> JsonText(MkObj([bareMetal |-> JArr(<<>>),
                                     docker |-> JArr(<<GoodEntry("docker")>>)])),
          tasks |-> JsonText(JArr(<<>>)),
          profiles |-> JsonText(JArr(<<JStr("dev")>>)),
          state |-> JsonText(MkObj([activeProfile |-> JStr(""),
                                    lastUpdated |-> JStr("2024-01-01")]))]

\* The way one run of each subcommand fails in the polling specification.
FailOutcome(kind) ==
  CASE kind = "status" -> ProcClose(1, NotJson)
    [] kind = "tasks" -> ProcClose(0, NotJson)
    [] kind = "profiles" -> ProcClose(0, JsonText(MkObj([profiles |-> JArr(<<>>)])))
    [] kind = "state" -> ProcError

\* The invocations that may fail: every kind in the first workspace folder,
\* the profiles call in the second, none in the fallback directory.
FlakyKinds(dir) ==
  CASE dir = "/a" -> {"status", "tasks", "profiles", "state"}
    [] dir = "/b" -> {"profiles"}
    [] OTHER -> {}

\* The outcomes one fetch can have: the CLI's output for the project, or a
\* failure.
CliOutcomes(dir, kind) ==
  {ProcClose(0, CliOutput(dir)[kind])}
    \cup (IF kind \in FlakyKinds(dir) THEN {FailOutcome(kind)} ELSE {})

(***************************************************************************)
(* Project discovery                                                       *)
(***************************************************************************)
WorkspaceFolders == <<"/a", "/b">>
Cwd == "/cwd"
Dirs == {"/a", "/b", Cwd}

NewProject(label, dir) ==
  [rootPath |-> dir, name |-> <<label, dir>>]

RECURSIVE FoldersWithYaml(_, _)
FoldersWithYaml(folders, yaml) ==
  IF folders = <<>> THEN <<>>
  ELSE LET rest == FoldersWithYaml(Tail(folders), yaml) IN
       IF Head(folders) \in yaml
       THEN <<NewProject("folder", Head(folders))>> \o rest
       ELSE rest

\* findZapperProjects: the workspace folders that hold a zap.yaml, in
\* order; the current directory only when no folder has one.  yaml is the
\* set of directories in which zap.yaml exists right now.
findZapperProjects(yaml) ==
  LET projects == FoldersWithYaml(WorkspaceFolders, yaml) IN
  IF projects = <<>> /\ Cwd \in yaml
  THEN <<NewProject("Current Directory", Cwd)>>
  ELSE projects

\* The current directory of the process has been removed: no zap.yaml is
\* found anywhere and process.cwd() throws.
NoCwd == "no cwd"

\* what a discovery can meet in the file system
Discoveries == (SUBSET Dirs) \cup {{NoCwd}}

\* findZapperProjects rejects: process.cwd() is called outside the try
\* blocks, when no workspace folder holds a zap.yaml
findZapperProjectsThrows(yaml) ==
  FoldersWithYaml(WorkspaceFolders, yaml) = <<>> /\ NoCwd \in yaml

(***************************************************************************)
(* zapperService.ts: executeZapCommand in detail                           *)
(***************************************************************************)
\* null, undefined or '' where a path is expected
NoPath == ""
\* the file auto-detection finds, and the file zapper.zapPath names
AutoPath == "/usr/local/bin/zap"
UserPath == "/opt/zap/bin/zap"
NodeExecPath == "node"
UserShell == "shell"

\* the module-level cache of locateZapBinary
NoCache == [cachedZapPath |-> NoPath, zapPathLookupAttempted |-> FALSE]

\* a locateZapBinary that searches again after a lookup that found nothing
locateZapBinaryRetry(cache, detect) ==
  IF cache.cachedZapPath # NoPath THEN [ret |-> cache.cachedZapPath, cache |-> cache]
  ELSE [ret |-> detect,
        cache |-> [cachedZapPath |-> detect, zapPathLookupAttempted |-> TRUE]]

\* locateZapBinary: the cached path; else nothing once a lookup was made;
\* else the lookup, whose result detect (a path or NoPath) is cached.
locateZapBinary(cache, detect) ==
  IF cache.cachedZapPath # NoPath THEN [ret |-> cache.cachedZapPath, cache |-> cache]
  ELSE IF cache.zapPathLookupAttempted THEN [ret |-> NoPath, cache |-> cache]
  ELSE [ret |-> detect,
        cache |-> [cachedZapPath |-> detect, zapPathLookupAttempted |-> TRUE]]

\* getZapBinaryPath after its call of locateZapBinary: the located path,
\* else the configured path when that file exists, else 'zap'
getZapBinaryPath(resolvedPath, userProvidedPath, exists) ==
  IF resolvedPath # NoPath THEN resolvedPath
  ELSE IF userProvidedPath # NoPath /\ exists THEN userProvidedPath
  ELSE "zap"

\* the spawn call: node with the script, the file itself, or a login shell
SpawnCall(zapPath, isExplicitPath, useNodeDirectly, args) ==
  IF isExplicitPath
  THEN IF useNodeDirectly
       THEN [via |-> "node", file |-> NodeExecPath, argv |-> <<zapPath>> \o args]
       ELSE [via |-> "direct", file |-> zapPath, argv |-> args]
  ELSE [via |-> "shell", file |-> UserShell, argv |-> <<"-l", "-c", zapPath>> \o args]
  \* (the words of the command line given to the shell follow -c)

NoChild == [via |-> "none", file |-> NoPath, argv |-> <<>>]

\* the zap executable a spawn call runs
CliOf(child) ==
  CASE child.via = "node" -> child.argv[1]
    [] child.via = "direct" -> child.file
    [] child.via = "shell" -> child.argv[3]
    [] OTHER -> NoPath

\* Text is a sequence of tokens; a data chunk carries one token.
StdoutTokens == {"[", "]"}
NodeMissing == "env: node: No such file or directory"
StderrTokens == {"oops", NodeMissing}

\* stderr.includes('node: No such file or directory') || stderr.includes('env: node')
MentionsNode(stderr) == \E n \in 1..Len(stderr) : stderr[n] = NodeMissing

\* the errors executeZapCommand rejects with
NoError == [type |-> "none"]

\* a command-failed error whose text is always stderr
CommandFailedStderrOnly(code, stderr, stdout) ==
  [type |-> "CommandFailed", code |-> code, text |-> stderr]

\* `Command failed with code ${code}: ${stderr || stdout}`
CommandFailed(code, stderr, stdout) ==
  [type |-> "CommandFailed", code |-> code,
   text |-> IF stderr # <<>> THEN stderr ELSE stdout]

\* `Node.js not found when executing zap. ... Error: ${stderr}`
NodeNotFound(stderr) == [type |-> "NodeNotFound", text |-> stderr]

\* the two messages of the error handler
ExecutableNotFound(isExplicitPath, zapPath) ==
  IF isExplicitPath
  THEN [type |-> "ExecutableNotFound", hint |-> "check the path in settings",
        path |-> zapPath]
  ELSE [type |-> "ExecutableNotFound",
        hint |-> "install the CLI or set zapper.zapPath", path |-> NoPath]

\* what process.cwd() throws when the current directory is gone
CwdError == [type |-> "CwdError"]

\* an error event that is not ENOENT is passed on as it is
SpawnError(errno) == [type |-> "SpawnError", errno |-> errno]

\* the promise of one call: settling a settled promise changes nothing
PromisePending == [state |-> "pending", value |-> <<>>, error |-> NoError]

ResolveLast(promise, value) ==
  [state |-> "resolved", value |-> value, error |-> NoError]

Resolve(promise, value) ==
  IF promise.state = "pending"
  THEN [state |-> "resolved", value |-> value, error |-> NoError]
  ELSE promise

RejectLast(promise, error) ==
  [state |-> "rejected", value |-> <<>>, error |-> error]

Reject(promise, error) ==
  IF promise.state = "pending"
  THEN [state |-> "rejected", value |-> <<>>, error |-> error]
  ELSE promise

\* stdout += data.toString(), with the chunk put in front
AppendChunkInFront(text, data) == <<data>> \o text

\* stdout += data.toString()
AppendChunk(text, data) == text \o <<data>>

\* the 'close' handler
OnClose(promise, code, stdout, stderr) ==
  IF code = 0 THEN Resolve(promise, stdout)
  ELSE IF MentionsNode(stderr) THEN Reject(promise, NodeNotFound(stderr))
  ELSE Reject(promise, CommandFailed(code, stderr, stdout))

\* JSON.parse of a token text: "[" "]" is the empty array, nothing else
\* is JSON
TextOf(tokens) == IF tokens = <<"[", "]">> THEN JsonText(JArr(<<>>)) ELSE NotJson

\* Who runs a command: a fetcher of a poll, or the handler of a user action.
ServiceActions == {"start", "stop", "restart"}
GlobalActions == {"startAll", "stopAll", "restartAll"}
ProfileActions == {"enableProfile", "disableProfile"}
Origins == Kinds \cup ServiceActions \cup GlobalActions \cup ProfileActions

\* the command string of each caller, split on blanks
CommandOf(origin) ==
  CASE origin = "status" -> <<"status", "--json">>
    [] origin = "tasks" -> <<"task", "--json">>
    [] origin = "profiles" -> <<"profile", "--list", "--json">>
    [] origin = "state" -> <<"state">>
    [] origin = "start" -> <<"up", "api">>
    [] origin = "stop" -> <<"down", "api">>
    [] origin = "restart" -> <<"restart", "api">>
    [] origin = "startAll" -> <<"up">>
    [] origin = "stopAll" -> <<"down">>
    [] origin = "restartAll" -> <<"restart">>
    [] origin = "enableProfile" -> <<"profile", "enable", "dev">>
    [] origin = "disableProfile" -> <<"profile", "--disable">>

\* path.isAbsolute
IsAbsolute(p) == p \in {AutoPath, UserPath}

\* The state of one invocation before anything has run.
RunOff ==
  [origin |-> "status",
   caller |-> "off",              \* off, idle, awaiting, done
   discovered |-> 0,              \* a global action: projects found, -1 when discovery threw
   cache |-> NoCache,             \* cachedZapPath, zapPathLookupAttempted
   userFile |-> NoPath,           \* the existing file zapper.zapPath names
   zapPath |-> NoPath,
   isExplicitPath |-> FALSE,
   child |-> NoChild,             \* the spawn call
   spawns |-> 0,                  \* number of spawn calls
   launch |-> "none",             \* how the launch goes
   proc |-> "none",               \* none, failed, running, errored, closed
   code |-> 0,                    \* the code of the close event
   stdout |-> <<>>,
   stderr |-> <<>>,
   arrived |-> <<>>,              \* the data events in arrival order
   handler |-> "idle",            \* the error handler: idle, located, dialog, done
   resolvedPath |-> NoPath,       \* the error handler's resolvedPath
   located |-> <<>>,              \* what the calls of locateZapBinary returned
   promise |-> PromisePending,
   settleCalls |-> 0,             \* calls of resolve or reject
   dialogs |-> 0,                 \* showWarningMessage prompts of the runner
   settingsOpened |-> FALSE,
   ret |-> Throw,                 \* what a fetcher returned
   thrown |-> NoError,            \* what an action function threw
   logged |-> 0,                  \* logger.error calls of the caller
   notes |-> <<>>,                \* notifications shown by the command handler
   refreshes |-> 0]               \* provider.refresh() calls of the handler

\* the beginning of executeZapCommand up to and including spawn.  detect is
\* what auto-detection would find, setting the zapper.zapPath setting,
\* exists whether that file exists, nodeScript whether the zap file is a
\* Node.js script, launch how the launch goes: ok; zapMissing, no zap
\* executable exists where it is looked for; ENOENT, the shell, the working
\* directory or the script's interpreter is missing; EACCES.
Call(r, detect, setting, exists, nodeScript, launch) ==
  LET l1 == locateZapBinary(r.cache, detect)
      path0 == getZapBinaryPath(l1.ret, setting, exists)
      explicit0 == path0 # "zap" /\ IsAbsolute(path0)
      l2 == IF explicit0 THEN [ret |-> NoPath, cache |-> l1.cache]
            ELSE locateZapBinary(l1.cache, detect)
      located == ~explicit0 /\ l2.ret # NoPath
      zapPath == IF located THEN l2.ret ELSE path0
      isExplicitPath == explicit0 \/ located
      useNodeDirectly == nodeScript /\ launch # "zapMissing"
  IN [r EXCEPT !.caller = "awaiting",
               !.cache = l2.cache,
               !.located = <<l1.ret>> \o (IF explicit0 THEN <<>> ELSE <<l2.ret>>),
               !.userFile = IF setting # NoPath /\ exists THEN setting ELSE NoPath,
               !.zapPath = zapPath,
               !.isExplicitPath = isExplicitPath,
               !.child = SpawnCall(zapPath, isExplicitPath, useNodeDirectly,
                                   CommandOf(r.origin)),
               !.spawns = @ + 1,
               !.launch = launch,
               !.proc = IF launch = "ok" \/ (launch = "zapMissing" /\ ~isExplicitPath)
                        THEN "running" ELSE "failed"]

(***************************************************************************)
(* zapperProvider.ts: the tree items                                       *)
(***************************************************************************)
\* undefined where a project name is expected; a label is the sequence of
\* the pieces of text it is made of
NoName == <<>>

\* the constructor of ZapperItem: contextValue follows from the type, the
\* status and the section (icons are left out)
ContextValueOf(type, status, sectionType) ==
  CASE type = "service" ->
         IF sectionType = "docker"
         THEN (CASE status = "up" -> "docker-service-running"
                 [] status = "pending" -> "docker-service-pending"
                 [] OTHER -> "docker-service-stopped")
         ELSE (CASE status = "up" -> "native-service-running"
                 [] status = "pending" -> "native-service-pending"
                 [] OTHER -> "native-service-stopped")
    [] type = "profile" ->
         IF status = "active" THEN "profile-active" ELSE "profile-inactive"
    [] OTHER -> type

ZapperItem(label, collapsibleState, type, projectName, status, projectPath, sectionType) ==
  [label |-> label, collapsibleState |-> collapsibleState, type |-> type,
   projectName |-> projectName, status |-> status, projectPath |-> projectPath,
   sectionType |-> sectionType,
   contextValue |-> ContextValueOf(type, status, sectionType)]

\* getChildren() without an element asks for the root
RootElement == ZapperItem(<<"root">>, "None", "root", NoName, "", "", "")

Placeholder ==
  ZapperItem(<<"No zapper projects found">>, "None", "info", NoName, "", "", "")

hasBareMetal(project) ==
  project.status # Null /\ Len(project.status.v.bareMetal) > 0

hasDocker(project) ==
  project.status # Null /\ Len(project.status.v.docker) > 0

hasTasks(project) == project.tasks # Null /\ Len(project.tasks.v) > 0

hasProfiles(project) == project.profiles # Null /\ Len(project.profiles.v) > 0

SectionItem(label, project, sectionType) ==
  ZapperItem(<<label>>, "Expanded", "section", project.name, "", project.rootPath,
             sectionType)

\* sections that are shown also when their collection is empty
SectionsOfAlways(project) ==
  <<SectionItem("Native", project, "bareMetal"), SectionItem("Docker", project, "docker"),
    SectionItem("Tasks", project, "tasks"), SectionItem("Profiles", project, "profiles")>>

\* the sections of a project: one for every collection that is not empty
SectionsOf(project) ==
  (IF hasBareMetal(project) THEN <<SectionItem("Native", project, "bareMetal")>> ELSE <<>>)
  \o (IF hasDocker(project) THEN <<SectionItem("Docker", project, "docker")>> ELSE <<>>)
  \o (IF hasTasks(project) THEN <<SectionItem("Tasks", project, "tasks")>> ELSE <<>>)
  \o (IF hasProfiles(project) THEN <<SectionItem("Profiles", project, "profiles")>> ELSE <<>>)

\* getZapPathSync and isUsingCustomPath
getZapPathSync(cachedZapPath, setting) ==
  IF cachedZapPath # NoPath THEN cachedZapPath
  ELSE IF setting # NoPath THEN setting
  ELSE "zap"

isUsingCustomPath(setting) == setting # NoPath

\* getNodePathSync with nothing cached: the setting, else process.execPath
getNodePathSync(setting) == IF setting # NoPath THEN setting ELSE NodeExecPath

\* what getChildren reads besides the cache: the debugMode, zapPath and
\* nodePath settings and the cached zap path
TreeEnvs ==
  [debugMode : BOOLEAN, zapPath : {NoPath, UserPath}, cachedZapPath : {NoPath, AutoPath},
   nodePath : {NoPath, "/opt/node"}]

\* the settings at their defaults and nothing cached
NoTreeEnv ==
  [debugMode |-> FALSE, zapPath |-> NoPath, cachedZapPath |-> NoPath, nodePath |-> NoPath]

\* getChildren(undefined)
RootChildren(cache, env) ==
  (IF env.debugMode
   THEN <<ZapperItem(<<"Debug Info">>, "Expanded", "debug", NoName, "", "", "")>>
   ELSE <<>>)
  \o (IF ~env.debugMode /\ isUsingCustomPath(env.zapPath)
      THEN <<ZapperItem(<<"Using:", getZapPathSync(env.cachedZapPath, env.zapPath)>>,
                        "None", "info", NoName, "", "", "")>>
      ELSE <<>>)
  \o (IF Len(cache) = 0 THEN <<Placeholder>>
      ELSE IF Len(cache) = 1 THEN SectionsOf(cache[1])
      ELSE [j \in 1..Len(cache) |->
              ZapperItem(cache[j].name, "Expanded", "project", NoName, "", "", "")])

YesNo(b) == IF b THEN "Yes" ELSE "No"

\* a number written in a template string
NumText(n) ==
  CASE n = 0 -> "0" [] n = 1 -> "1" [] n = 2 -> "2" [] n = 3 -> "3" [] OTHER -> "4"

DebugInfo(label) == ZapperItem(label, "None", "debugInfo", NoName, "", "", "")

\* getChildren of the Debug Info item
DebugChildren(cache, env) ==
  <<DebugInfo(<<"Zap Command:", getZapPathSync(env.cachedZapPath, env.zapPath)>>),
    DebugInfo(<<"Using Custom Zap Path:", YesNo(isUsingCustomPath(env.zapPath))>>),
    DebugInfo(<<"Node Path:", getNodePathSync(env.nodePath)>>),
    DebugInfo(<<"Using Custom Node Path:", YesNo(env.nodePath # NoPath)>>),
    DebugInfo(<<"Projects Found:", NumText(Len(cache))>>)>>
  \o [j \in 1..Len(cache) |-> DebugInfo(<<"Project", NumText(j), cache[j].rootPath>>)]

\* this.projects.find(p => p.name === name): the index of the first match,
\* 0 when there is none
FindProject(cache, name) ==
  LET hits == {j \in 1..Len(cache) : cache[j].name = name} IN
  IF hits = {} THEN 0 ELSE CHOOSE j \in hits : \A k \in hits : j <= k

\* a profile item that is tagged active whenever an active profile exists
ProfileItemAnyActive(project, profile) ==
  LET isActive == project.activeProfile # Null IN
  ZapperItem(IF isActive THEN <<profile, "(active)">> ELSE <<profile>>, "None", "profile",
             project.name, IF isActive THEN "active" ELSE "inactive", project.rootPath, "")

\* isActive = project.activeProfile === profile
ProfileItem(project, profile) ==
  LET isActive == project.activeProfile = Some(profile) IN
  ZapperItem(IF isActive THEN <<profile, "(active)">> ELSE <<profile>>, "None", "profile",
             project.name, IF isActive THEN "active" ELSE "inactive", project.rootPath, "")

\* getChildren of a section item
SectionChildren(project, sectionType) ==
  CASE sectionType = "bareMetal" /\ project.status # Null ->
         [n \in 1..Len(project.status.v.bareMetal) |->
            LET service == project.status.v.bareMetal[n] IN
            ZapperItem(<<service.service>>, "None", "service", project.name,
                       service.status, project.rootPath, "bareMetal")]
    [] sectionType = "docker" /\ project.status # Null ->
         [n \in 1..Len(project.status.v.docker) |->
            LET service == project.status.v.docker[n] IN
            ZapperItem(<<service.service>>, "None", "service", project.name,
                       service.status, project.rootPath, "docker")]
    [] sectionType = "tasks" /\ project.tasks # Null ->
         [n \in 1..Len(project.tasks.v) |->
            ZapperItem(<<project.tasks.v[n].name>>, "None", "task", project.name, "",
                       project.rootPath, "")]
    [] sectionType = "profiles" /\ project.profiles # Null ->
         [n \in 1..Len(project.profiles.v) |-> ProfileItem(project, project.profiles.v[n])]
    [] OTHER -> <<>>

\* getChildren(element)
getChildren(cache, element, env) ==
  CASE element.type = "root" -> RootChildren(cache, env)
    [] element.type = "debug" -> DebugChildren(cache, env)
    [] element.type = "project" ->
         LET j == FindProject(cache, element.label) IN
         IF j = 0 THEN <<>> ELSE SectionsOf(cache[j])
    [] element.type = "section" ->
         LET j == FindProject(cache, element.projectName) IN
         IF j = 0 THEN <<>> ELSE SectionChildren(cache[j], element.sectionType)
    [] OTHER -> <<>>

\* nothing has been asked of the tree yet
TreeOff == [shown |-> FALSE, element |-> RootElement, items |-> <<>>]

(***************************************************************************)
(* State                                                                   *)
(***************************************************************************)
VARIABLES
  constructed,       \* the provider's constructor has run
  projects,          \* ZapperProvider.projects: the cached project list
  pollingInterval,   \* ZapperProvider.pollingInterval: the setInterval handle
  polls,             \* the pollStatus() calls of this behaviour, in start order
  fired,             \* number of _onDidChangeTreeData.fire() calls
  spawned,           \* number of subprocesses spawned
  writes,            \* per poll: number of assignments to this.projects
  cacheFrom,         \* the poll that assigned this.projects last (0: none)
  ticks,             \* number of times the setInterval callback has run
  fcase,             \* the single fetcher call of the fetcher specification
  run,               \* the single command invocation of the runner specification
  tree               \* the tree view: the element asked for last and its children

pvars == <<constructed, projects, pollingInterval, polls, fired, spawned, writes, cacheFrom, ticks>>
vars == <<constructed, projects, pollingInterval, polls, fired, spawned, writes, cacheFrom, ticks, fcase, run, tree>>

PollIds == 1..MaxPolls

PollPeriodMs == 2000

NoTimer == [set |-> FALSE, active |-> FALSE, period |-> 0]

NoProc == [ev |-> "none", code |-> 0, stdout |-> NotJson]
Pending == [st |-> "pending", proc |-> NoProc, ret |-> Null]
Settled(kind, proc) == [st |-> "settled", proc |-> proc, ret |-> Fetcher(kind, proc).ret]

\* the states in which a fetch of the given kind for the project in dir
\* can settle
SettledFetches ==
  [dir \in Dirs |-> [kind \in Kinds |-> {Settled(kind, proc) : proc \in CliOutcomes(dir, kind)}]]

\* A pollStatus() call: the discovered projects, their fetches, the
\* projects in the order in which their four fetches were all settled, and
\* the list the call assigned to the cache.
NoPoll == [phase |-> "none", found |-> <<>>, fetches |-> <<>>, order |-> <<>>,
           published |-> <<>>]

Started == {i \in PollIds : polls[i].phase # "none"}
InFlight == {i \in PollIds : polls[i].phase = "fetching"}

FetchIds(poll) == (1..Len(poll.found)) \X Kinds

AllSettled(poll) == \A f \in FetchIds(poll) : poll.fetches[f].st = "settled"

AnyProjectSettled(poll) ==
  \/ poll.found = <<>>
  \/ \E j \in 1..Len(poll.found) : \A k \in Kinds : poll.fetches[<<j, k>>].st = "settled"

\* Promise.all over the projects, each a Promise.all over its four
\* fetchers: getAllZapperStatuses resolves when every fetch has settled.
PromiseAllSettled(poll) == AllSettled(poll)

\* state?.activeProfile || null
ActiveProfileOf(state) ==
  IF state = Null THEN Null
  ELSE IF "activeProfile" \notin DOMAIN state.v THEN Null
  ELSE IF state.v.activeProfile = Null THEN Null
  ELSE IF state.v.activeProfile.v = "" THEN Null
  ELSE state.v.activeProfile

\* an entry that is emptied as soon as one of the project's fetches failed
ProjectEntryAllOrNothing(poll, j) ==
  LET failed == \E k \in Kinds : poll.fetches[<<j, k>>].ret = Null IN
  [rootPath |-> poll.found[j].rootPath,
   name |-> poll.found[j].name,
   status |-> IF failed THEN Null ELSE poll.fetches[<<j, "status">>].ret,
   tasks |-> IF failed THEN Null ELSE poll.fetches[<<j, "tasks">>].ret,
   profiles |-> IF failed THEN Null ELSE poll.fetches[<<j, "profiles">>].ret,
   activeProfile |-> IF failed THEN Null
                     ELSE ActiveProfileOf(poll.fetches[<<j, "state">>].ret)]

\* an entry in which an empty task or profile list is turned into null
EmptyAsNull(x) == IF x = Some(<<>>) THEN Null ELSE x

ProjectEntryEmptyAsNull(poll, j) ==
  [rootPath |-> poll.found[j].rootPath,
   name |-> poll.found[j].name,
   status |-> poll.fetches[<<j, "status">>].ret,
   tasks |-> EmptyAsNull(poll.fetches[<<j, "tasks">>].ret),
   profiles |-> EmptyAsNull(poll.fetches[<<j, "profiles">>].ret),
   activeProfile |-> ActiveProfileOf(poll.fetches[<<j, "state">>].ret)]

\* { ...project, status, tasks, profiles, activeProfile }
ProjectEntry(poll, j) ==
  [rootPath |-> poll.found[j].rootPath,
   name |-> poll.found[j].name,
   status |-> poll.fetches[<<j, "status">>].ret,
   tasks |-> poll.fetches[<<j, "tasks">>].ret,
   profiles |-> poll.fetches[<<j, "profiles">>].ret,
   activeProfile |-> ActiveProfileOf(poll.fetches[<<j, "state">>].ret)]

\* a result that lists the projects in the order in which they completed
getAllZapperStatusesByCompletion(poll) ==
  [n \in 1..Len(poll.order) |-> ProjectEntry(poll, poll.order[n])]

\* the value getAllZapperStatuses resolves with
getAllZapperStatuses(poll) == [j \in 1..Len(poll.found) |-> ProjectEntry(poll, j)]

InitProvider ==
  /\ constructed = FALSE
  /\ projects = <<>>
  /\ pollingInterval = NoTimer
  /\ polls = [i \in PollIds |-> NoPoll]
  /\ fired = 0
  /\ spawned = 0
  /\ writes = [i \in PollIds |-> 0]
  /\ cacheFrom = 0
  /\ ticks = 0

FetchOff == [pc |-> "off", kind |-> "status", proc |-> NoProc, out |-> Throw]

Init == InitProvider /\ fcase = FetchOff /\ run = RunOff /\ tree = TreeOff

\* a publish that keeps the cached status of a project whose new status is null
PublishMerge(i, poll) ==
  LET new == getAllZapperStatuses(poll) IN
  /\ projects' = [j \in 1..Len(new) |->
                    IF /\ j <= Len(projects)
                       /\ projects[j].rootPath = new[j].rootPath
                       /\ new[j].status = Null
                    THEN [new[j] EXCEPT !.status = projects[j].status]
                    ELSE new[j]]
  /\ fired' = fired + 1
  /\ writes' = [writes EXCEPT ![i] = @ + 1]
  /\ cacheFrom' = i

\* a publish that fires the event before and after the assignment
PublishFireTwice(i, poll) ==
  /\ projects' = getAllZapperStatuses(poll)
  /\ fired' = fired + 2
  /\ writes' = [writes EXCEPT ![i] = @ + 1]
  /\ cacheFrom' = i

\* a publish that adds the poll's result to the cached list
PublishAppend(i, poll) ==
  /\ projects' = projects \o getAllZapperStatuses(poll)
  /\ fired' = fired + 1
  /\ writes' = [writes EXCEPT ![i] = @ + 1]
  /\ cacheFrom' = i

\* pollStatus after `await getAllZapperStatuses()`: the cache is replaced
\* by the poll's result and the tree-change event is fired.
Publish(i, poll) ==
  /\ projects' = getAllZapperStatuses(poll)
  /\ fired' = fired + 1
  /\ writes' = [writes EXCEPT ![i] = @ + 1]
  /\ cacheFrom' = i

\* The poll continues after an event: once getAllZapperStatuses has
\* resolved, the rest of pollStatus runs in the same turn of the event loop.
Continue(i, poll) ==
  IF poll.phase = "fetching" /\ PromiseAllSettled(poll)
  THEN /\ Publish(i, poll)
       /\ polls' = [polls EXCEPT ![i] = [poll EXCEPT !.phase = "done",
                                                     !.published = projects']]
  ELSE /\ polls' = [polls EXCEPT ![i] = poll]
       /\ UNCHANGED <<projects, fired, writes, cacheFrom>>

\* a catch block that empties the cache and fires the event
pollStatusCatchClear(i) ==
  /\ polls' = [polls EXCEPT ![i] = [NoPoll EXCEPT !.phase = "failed"]]
  /\ projects' = <<>>
  /\ fired' = fired + 1
  /\ UNCHANGED <<writes, cacheFrom>>

\* the catch block of pollStatus: getAllZapperStatuses rejected, the error
\* is logged
pollStatusCatch(i) ==
  /\ polls' = [polls EXCEPT ![i] = [NoPoll EXCEPT !.phase = "failed"]]
  /\ UNCHANGED <<projects, fired, writes, cacheFrom>>

\* a pollStatus() that returns at once while an earlier poll is in flight
pollStatusSkipIfBusy(yaml) ==
  LET i == Cardinality(Started) + 1
      found == findZapperProjects(yaml)
      poll == [phase |-> "fetching", found |-> found,
               fetches |-> [f \in (1..Len(found)) \X Kinds |-> Pending],
               order |-> <<>>, published |-> <<>>]
  IN /\ i \in PollIds
     /\ spawned + 4 * Len(found) <= MaxSpawns
     /\ IF InFlight # {}
        THEN UNCHANGED <<polls, projects, fired, writes, cacheFrom, spawned>>
        ELSE IF findZapperProjectsThrows(yaml)
        THEN pollStatusCatch(i) /\ UNCHANGED spawned
        ELSE /\ spawned' = spawned + 4 * Len(found)
             /\ Continue(i, poll)

\* pollStatus(): discovery runs at once and the four fetchers of every
\* discovered project are started; nothing checks for a poll in flight.
pollStatus(yaml) ==
  LET i == Cardinality(Started) + 1
      found == findZapperProjects(yaml)
      poll == [phase |-> "fetching", found |-> found,
               fetches |-> [f \in (1..Len(found)) \X Kinds |-> Pending],
               order |-> <<>>, published |-> <<>>]
  IN /\ i \in PollIds
     /\ spawned + 4 * Len(found) <= MaxSpawns
     /\ IF findZapperProjectsThrows(yaml)
        THEN pollStatusCatch(i) /\ UNCHANGED spawned
        ELSE /\ spawned' = spawned + 4 * Len(found)
             /\ Continue(i, poll)

\* startPolling(): one poll at once, then setInterval(..., 2000)
startPolling(yaml) ==
  /\ pollStatus(yaml)
  /\ pollingInterval' = [set |-> TRUE, active |-> TRUE, period |-> PollPeriodMs]

\* the constructor
Constructor ==
  /\ ~constructed
  /\ constructed' = TRUE
  /\ \E yaml \in Discoveries : startPolling(yaml)
  /\ UNCHANGED <<ticks, fcase, run, tree>>

\* the setInterval callback
TimerFire ==
  /\ pollingInterval.active
  /\ ticks' = ticks + 1
  /\ \E yaml \in Discoveries : pollStatus(yaml)
  /\ UNCHANGED <<constructed, pollingInterval, fcase, run, tree>>

\* refresh()
Refresh ==
  /\ constructed
  /\ \E yaml \in Discoveries : pollStatus(yaml)
  /\ UNCHANGED <<constructed, pollingInterval, ticks, fcase, run, tree>>

\* dispose(): clearInterval when a handle is set
Dispose ==
  /\ constructed
  /\ pollingInterval' = IF pollingInterval.set
                        THEN [pollingInterval EXCEPT !.active = FALSE]
                        ELSE pollingInterval
  /\ UNCHANGED <<constructed, projects, polls, fired, spawned, writes, cacheFrom, ticks, fcase, run, tree>>

\* the poll after fetch f has settled: the inner Promise.all of a project
\* resolves with the project's fourth fetch
AfterSettle(poll, f, settled) ==
  LET fetches == [poll.fetches EXCEPT ![f] = settled] IN
  [poll EXCEPT !.fetches = fetches,
               !.order = IF \A k \in Kinds : fetches[<<f[1], k>>].st = "settled"
                         THEN Append(@, f[1]) ELSE @]

\* the subprocess of one fetch ends and its fetcher returns
FetchSettle ==
  \E i \in InFlight : \E f \in FetchIds(polls[i]) :
    /\ polls[i].fetches[f].st = "pending"
    /\ \E settled \in SettledFetches[polls[i].found[f[1]].rootPath][f[2]] :
         Continue(i, AfterSettle(polls[i], f, settled))
    /\ UNCHANGED <<constructed, pollingInterval, spawned, ticks, fcase, run, tree>>

Next == Constructor \/ TimerFire \/ Refresh \/ Dispose \/ FetchSettle

Spec == Init /\ [][Next]_vars

(***************************************************************************)
(* The fetcher specification: one fetcher call on a drawn outcome          *)
(***************************************************************************)
InitFetch ==
  /\ InitProvider
  /\ \E kind \in Kinds : \E proc \in ProcInputs(kind) :
       fcase = [pc |-> "spawned", kind |-> kind, proc |-> proc, out |-> Throw]
  /\ run = RunOff
  /\ tree = TreeOff

RunFetcher ==
  /\ fcase.pc = "spawned"
  /\ fcase' = [fcase EXCEPT !.pc = "settled", !.out = Fetcher(fcase.kind, fcase.proc)]
  /\ UNCHANGED <<pvars, run, tree>>

NextFetch == RunFetcher

SpecFetch == InitFetch /\ [][NextFetch]_vars

(***************************************************************************)
(* The runner specification: one command from its caller to its effects    *)
(***************************************************************************)
\* the states the module-level cache can be in when a command is run
CacheStates ==
  {NoCache,
   [cachedZapPath |-> NoPath, zapPathLookupAttempted |-> TRUE],
   [cachedZapPath |-> AutoPath, zapPathLookupAttempted |-> TRUE]}

InitRun ==
  /\ InitProvider
  /\ fcase = FetchOff
  /\ \E origin \in Origins : \E cache \in CacheStates :
       run = [RunOff EXCEPT !.origin = origin, !.caller = "idle", !.cache = cache]
  /\ tree = TreeOff

\* a notification: showInformationMessage, showWarningMessage or
\* showErrorMessage of a command handler, with the error it reports
Note(kind, text, error) == [kind |-> kind, text |-> text, error |-> error]

\* what a launch can be like: the file of a path that was just checked or
\* detected exists; only a path cached earlier may be gone
LaunchPossible(r0, r) ==
  \/ r.launch \in {"ok", "ENOENT", "EACCES"}
  \/ r.launch = "zapMissing" /\ ~r.isExplicitPath
  \/ r.launch = "zapMissing" /\ r.zapPath = r0.cache.cachedZapPath

\* the messages of the command handlers
SuccessText(origin) ==
  CASE origin = "start" -> "Started api"
    [] origin = "stop" -> "Stopped api"
    [] origin = "restart" -> "Restarted api"
    [] origin = "startAll" -> "Started all services"
    [] origin = "stopAll" -> "Stopped all services"
    [] origin = "restartAll" -> "Restarted all services"

FailureText(origin) ==
  CASE origin = "start" -> "Failed to start api"
    [] origin = "stop" -> "Failed to stop api"
    [] origin = "restart" -> "Failed to restart api"
    [] origin = "startAll" -> "Failed to start all services"
    [] origin = "stopAll" -> "Failed to stop all services"
    [] origin = "restartAll" -> "Failed to restart all services"

\* A caller runs up to its await of executeZapCommand: a fetcher and an
\* action function call it at once; the handlers of start, stop and
\* restart need a selected item; the handlers of the global actions need
\* exactly one project.
Invoke ==
  /\ run.caller = "idle"
  /\ \E itemOk \in BOOLEAN : \E yaml \in Discoveries :
     \E detect \in {NoPath, AutoPath} : \E setting \in {NoPath, UserPath} :
     \E exists \in BOOLEAN : \E nodeScript \in BOOLEAN :
     \E launch \in {"ok", "zapMissing", "ENOENT", "EACCES"} :
       LET called == Call(run, detect, setting, exists, nodeScript, launch)
           nProjects == Len(findZapperProjects(yaml))
       IN
       IF run.origin \in ServiceActions /\ ~itemOk
       THEN run' = [run EXCEPT !.caller = "done",
                               !.notes = IF run.origin = "start"
                                         THEN <<Note("error", "No service selected", NoError)>>
                                         ELSE <<>>]
       ELSE IF run.origin \in GlobalActions /\ findZapperProjectsThrows(yaml)
       THEN run' = [run EXCEPT !.caller = "done",
                               !.discovered = -1,
                               !.notes = <<Note("error", FailureText(run.origin), CwdError)>>]
       ELSE IF run.origin \in GlobalActions /\ nProjects # 1
       THEN run' = [run EXCEPT !.caller = "done",
                               !.discovered = nProjects,
                               !.notes = <<Note("warning",
                                                IF nProjects = 0 THEN "No zapper projects found"
                                                ELSE "single-project workspaces only",
                                                NoError)>>]
       ELSE /\ LaunchPossible(run, called)
            /\ run' = [called EXCEPT !.discovered =
                                       IF run.origin \in GlobalActions THEN 1 ELSE 0]
  /\ UNCHANGED <<pvars, fcase, tree>>

\* stdout.on('data')
StdoutData ==
  /\ run.proc = "running"
  /\ Len(run.arrived) < MaxChunks
  /\ \E tok \in StdoutTokens :
       run' = [run EXCEPT !.stdout = AppendChunk(@, tok),
                          !.arrived = Append(@, [stream |-> "stdout", data |-> tok])]
  /\ UNCHANGED <<pvars, fcase, tree>>

\* stderr.on('data')
StderrData ==
  /\ run.proc = "running"
  /\ Len(run.arrived) < MaxChunks
  /\ \E tok \in StderrTokens :
       run' = [run EXCEPT !.stderr = AppendChunk(@, tok),
                          !.arrived = Append(@, [stream |-> "stderr", data |-> tok])]
  /\ UNCHANGED <<pvars, fcase, tree>>

\* the code of the close event
CloseCodes(r) ==
  CASE r.proc = "errored" -> IF r.launch = "EACCES" THEN {-13} ELSE {-2}
    [] r.launch = "zapMissing" -> {127}
    [] OTHER -> {0, 1}

\* a close event that follows an exit only, never a failed launch
CloseEventAfterExitOnly ==
  /\ run.proc = "running"
  /\ \E code \in CloseCodes(run) :
       run' = [run EXCEPT !.proc = "closed",
                          !.code = code,
                          !.promise = OnClose(@, code, run.stdout, run.stderr),
                          !.settleCalls = @ + 1]
  /\ UNCHANGED <<pvars, fcase, tree>>

\* child.on('close'): the child has exited and its streams have ended; a
\* child that could not be launched closes too, after its error event
CloseEvent ==
  /\ run.proc \in {"running", "errored"}
  /\ \E code \in CloseCodes(run) :
       run' = [run EXCEPT !.proc = "closed",
                          !.code = code,
                          !.promise = OnClose(@, code, run.stdout, run.stderr),
                          !.settleCalls = @ + 1]
  /\ UNCHANGED <<pvars, fcase, tree>>

\* child.on('error'), up to the handler's first await: ENOENT awaits
\* locateZapBinary, any other error rejects at once
ErrorEvent ==
  /\ run.proc = "failed"
  /\ IF run.launch = "EACCES"
     THEN run' = [run EXCEPT !.proc = "errored",
                             !.handler = "done",
                             !.promise = Reject(@, SpawnError("EACCES")),
                             !.settleCalls = @ + 1]
     ELSE \E detect \in {NoPath, AutoPath} :
            LET l == locateZapBinary(run.cache, detect) IN
            run' = [run EXCEPT !.proc = "errored",
                               !.handler = "located",
                               !.resolvedPath = l.ret,
                               !.located = Append(@, l.ret),
                               !.cache = l.cache]
  /\ UNCHANGED <<pvars, fcase, tree>>

\* the error handler after `await locateZapBinary()`: the prompt when no
\* binary is located, the rejection otherwise
ErrorContinue ==
  /\ run.handler = "located"
  /\ IF run.resolvedPath = NoPath
     THEN run' = [run EXCEPT !.handler = "dialog", !.dialogs = @ + 1]
     ELSE run' = [run EXCEPT !.handler = "done",
                             !.promise = Reject(@, ExecutableNotFound(run.isExplicitPath,
                                                                      run.zapPath)),
                             !.settleCalls = @ + 1]
  /\ UNCHANGED <<pvars, fcase, tree>>

\* the user answers or closes the prompt: the settings are opened on
\* 'Open Settings', then the handler rejects
DialogAnswer ==
  /\ run.handler = "dialog"
  /\ \E action \in {"Open Settings", "Dismiss", "closed"} :
       run' = [run EXCEPT !.handler = "done",
                          !.settingsOpened = (action = "Open Settings"),
                          !.promise = Reject(@, ExecutableNotFound(run.isExplicitPath,
                                                                   run.zapPath)),
                          !.settleCalls = @ + 1]
  /\ UNCHANGED <<pvars, fcase, tree>>

\* a fetcher that runs its command a second time when the first run failed
FetcherResumeRetry(r) ==
  IF r.promise.state = "rejected" /\ r.spawns < 2
  THEN [r EXCEPT !.spawns = @ + 1, !.proc = "running", !.launch = "ok",
                 !.promise = PromisePending, !.logged = @ + 1]
  ELSE [r EXCEPT !.caller = "done",
                 !.ret = CatchFetch(TryFetchOn([resolved |-> r.promise.state = "resolved",
                                                value |-> TextOf(r.promise.value)],
                                               r.origin))]

\* a fetcher after its await: the rest of the try block, or the catch block
FetcherResume(r) ==
  LET output == [resolved |-> r.promise.state = "resolved",
                 value |-> TextOf(r.promise.value)]
      out == CatchFetch(TryFetchOn(output, r.origin))
  IN [r EXCEPT !.caller = "done",
               !.ret = out,
               !.logged = IF out.ret = Null THEN @ + 1 ELSE @]

\* an action function whose catch block logs and does not rethrow
ActionResumeSwallow(r) ==
  IF r.promise.state = "resolved"
  THEN [r EXCEPT !.caller = "returned"]
  ELSE [r EXCEPT !.caller = "returned", !.logged = @ + 1]

\* an action function after its await: it returns, or logs and rethrows
ActionResume(r) ==
  IF r.promise.state = "resolved"
  THEN [r EXCEPT !.caller = "returned"]
  ELSE [r EXCEPT !.caller = "threw", !.thrown = r.promise.error, !.logged = @ + 1]

\* a handler that refreshes the tree also after a failed command
HandlerResumeRefreshAlways(r) ==
  IF r.caller = "returned"
  THEN [r EXCEPT !.caller = "done",
                 !.notes = Append(@, Note("info", SuccessText(r.origin), NoError)),
                 !.refreshes = @ + 1]
  ELSE [r EXCEPT !.caller = "done",
                 !.notes = Append(@, Note("error", FailureText(r.origin), r.thrown)),
                 !.refreshes = @ + 1]

\* a command handler after its await of the action function: the success
\* message and provider.refresh(), or the error message of its catch block
HandlerResume(r) ==
  IF r.caller = "returned"
  THEN [r EXCEPT !.caller = "done",
                 !.notes = Append(@, Note("info", SuccessText(r.origin), NoError)),
                 !.refreshes = @ + 1]
  ELSE [r EXCEPT !.caller = "done",
                 !.notes = Append(@, Note("error", FailureText(r.origin), r.thrown))]

\* the caller continues once the promise of executeZapCommand has settled
Resume ==
  /\ run.caller = "awaiting"
  /\ run.promise.state # "pending"
  /\ run' = IF run.origin \in Kinds THEN FetcherResume(run)
            ELSE IF run.origin \in ProfileActions THEN ActionResume(run)
            ELSE HandlerResume(ActionResume(run))
  /\ UNCHANGED <<pvars, fcase, tree>>

NextRun ==
  \/ Invoke \/ StdoutData \/ StderrData \/ CloseEvent
  \/ ErrorEvent \/ ErrorContinue \/ DialogAnswer \/ Resume

SpecRun == InitRun /\ [][NextRun]_vars

\* The runner under the scheduling of the event loop: a child that was
\* spawned exits or fails to launch, so its error and close events are
\* delivered, and a continuation whose awaited promise has settled is run.
\* Nothing makes the user answer a prompt, and nothing makes a child write.
SpecRunLive ==
  /\ SpecRun
  /\ WF_vars(CloseEvent)
  /\ WF_vars(ErrorEvent)
  /\ WF_vars(ErrorContinue)
  /\ WF_vars(Resume)

(***************************************************************************)
(* The tree specification: getChildren on the cache of a completed poll    *)
(***************************************************************************)
\* the outcomes of the four commands of a project whose tree is shown: a
\* failure and one output each for "/b", one more for "/a", and the widest
\* choice for the current directory
TreeOutcomes(dir, kind) ==
  LET Ok(v) == ProcClose(0, JsonText(v))
      ServiceEntry(name, ty) ==
        MkObj([service |-> JStr(name), rawName |-> JStr(name), status |-> JStr("up"),
               type |-> JStr(ty)])
      StateOutput(ap) ==
        MkObj([activeProfile |-> ap, lastUpdated |-> JStr("2024-01-01")])
  IN
  {FailOutcome(kind)} \cup
  IF dir \in {"/a", "/b"}
  THEN (CASE kind = "status" ->
               {Ok(MkObj([bareMetal |-> JArr(<<ServiceEntry("api", "native")>>)]))}
               \cup (IF dir = "/a" THEN {Ok(MkObj(<<>>))} ELSE {})
          [] kind = "tasks" -> {Ok(JArr(<<MkObj([name |-> JStr("build")])>>))}
          [] kind = "profiles" ->
               {Ok(JArr(<<JStr("dev")>>))}
               \cup (IF dir = "/a" THEN {Ok(JArr(<<JStr("dev"), JStr("prod")>>))} ELSE {})
          [] kind = "state" ->
               {Ok(StateOutput(JStr("dev")))}
               \cup (IF dir = "/a" THEN {Ok(StateOutput(JStr("prod")))} ELSE {}))
  ELSE (CASE kind = "status" ->
               {Ok(MkObj([bareMetal |-> JArr(<<>>), docker |-> JArr(<<>>)])),
                Ok(MkObj([bareMetal |-> JArr(<<ServiceEntry("api", "bare_metal")>>)])),
                Ok(MkObj([docker |-> JArr(<<ServiceEntry("db", "docker")>>)]))}
          [] kind = "tasks" -> {Ok(JArr(<<>>)), Ok(JArr(<<MkObj([name |-> JStr("build")])>>))}
          [] kind = "profiles" ->
               {Ok(JArr(l)) : l \in SeqsUpTo({JStr("dev"), JStr("prod")}, MaxEntries)}
          [] kind = "state" ->
               {Ok(StateOutput(ap)) :
                  ap \in {Absent, JNull, JStr(""), JStr("dev"), JStr("prod")}})

\* the settled fetches of one project
ProjectCases(dir) ==
  {[status |-> Settled("status", a), tasks |-> Settled("tasks", b),
    profiles |-> Settled("profiles", c), state |-> Settled("state", d)] :
     a \in TreeOutcomes(dir, "status"), b \in TreeOutcomes(dir, "tasks"),
     c \in TreeOutcomes(dir, "profiles"), d \in TreeOutcomes(dir, "state")}

CasesAt(found, j) ==
  IF j <= Len(found) THEN ProjectCases(found[j].rootPath) ELSE {<<>>}

\* the provider after its constructor's poll has completed
InitTree ==
  /\ \E yaml \in SUBSET Dirs :
       LET found == findZapperProjects(yaml) IN
       \E c1 \in CasesAt(found, 1) : \E c2 \in CasesAt(found, 2) :
         LET poll == [phase |-> "done", found |-> found,
                      fetches |-> [f \in (1..Len(found)) \X Kinds |->
                                     IF f[1] = 1 THEN c1[f[2]] ELSE c2[f[2]]],
                      order |-> [j \in 1..Len(found) |-> j],
                      published |-> <<>>]
         IN /\ projects = getAllZapperStatuses(poll)
            /\ polls = [i \in PollIds |->
                          IF i = 1 THEN [poll EXCEPT !.published = getAllZapperStatuses(poll)]
                          ELSE NoPoll]
            /\ spawned = 4 * Len(found)
  /\ constructed = TRUE
  /\ pollingInterval = [set |-> TRUE, active |-> TRUE, period |-> PollPeriodMs]
  /\ fired = 1
  /\ writes = [i \in PollIds |-> IF i = 1 THEN 1 ELSE 0]
  /\ cacheFrom = 1
  /\ ticks = 0
  /\ fcase = FetchOff
  /\ run = RunOff
  /\ tree = TreeOff

\* The view asks for the root first and then for the children of an item
\* it was given.
GetChildren ==
  /\ \E element \in IF tree.shown THEN {tree.items[n] : n \in 1..Len(tree.items)}
                     ELSE {RootElement} :
     \E env \in IF element.type \in {"root", "debug"} THEN TreeEnvs ELSE {NoTreeEnv} :
       tree' = [shown |-> TRUE, element |-> element,
                items |-> getChildren(projects, element, env)]
  /\ UNCHANGED <<pvars, fcase, run>>

NextTree == GetChildren

SpecTree == InitTree /\ [][NextTree]_vars

(***************************************************************************)
(* Properties                                                              *)
(***************************************************************************)
NumStarted == Cardinality(Started)

TimerArmed == [set |-> TRUE, active |-> TRUE, period |-> 2000]

Disposed == pollingInterval.set /\ ~pollingInterval.active

\* the command failed, its output is not JSON, or the value does not match
\* the schema of the kind
FetchFailed(kind, proc) ==
  \/ proc.ev # "close"
  \/ proc.code # 0
  \/ ~proc.stdout.json
  \/ ~SchemaOf(kind, proc.stdout.v).success

\* C1: every poll assigns the cached project list at most once, exactly
\* once when it has completed, and only when all four fetches of every
\* discovered project have settled; the cache never holds the result of a
\* poll that still has a fetch pending.
C1_PublishOnceAfterAllSettled ==
  /\ \A i \in PollIds :
       /\ writes[i] <= 1
       /\ (writes[i] = 1) <=> (polls[i].phase = "done")
       /\ writes[i] = 1 => AllSettled(polls[i])
  /\ cacheFrom = 0 => projects = <<>>
  /\ cacheFrom # 0 =>
       /\ AllSettled(polls[cacheFrom])
       /\ Len(projects) = Len(polls[cacheFrom].found)

C1_Witness ==
  /\ cacheFrom # 0
  /\ Len(projects) = 2
  /\ writes[cacheFrom] = 1

\* C2: at most one poll is in flight at any time.
C2_AtMostOnePollInFlight == Cardinality(InFlight) <= 1

\* C3: after dispose() the timer is stopped and no poll is started any more.
C3_NoPollAfterDispose ==
  [][Disposed => (Disposed' /\ NumStarted' = NumStarted)]_vars

\* C4: a fetcher never throws; it returns null when the command fails, the
\* output is not JSON or the value does not match the schema, and the
\* validated value in every other case.
C4_FetcherReturnsNullOnFailure ==
  fcase.pc = "settled" =>
    /\ ~fcase.out.threw
    /\ FetchFailed(fcase.kind, fcase.proc) => fcase.out.ret = Null
    /\ ~FetchFailed(fcase.kind, fcase.proc) =>
         fcase.out.ret = Some(SchemaOf(fcase.kind, fcase.proc.stdout.v).data)

C4_Witness ==
  /\ fcase.pc = "settled"
  /\ fcase.kind = "tasks"
  /\ fcase.proc.code = 1
  /\ fcase.proc.stdout.json
  /\ fcase.out = Return(Null)

\* the value a field of a published entry has when its own fetch ended
\* with proc, whatever the other fetches did
OwnField(dir, kind, proc) ==
  IF proc = FailOutcome(kind) THEN Null
  ELSE Some(SchemaOf(kind, CliOutput(dir)[kind].v).data)

\* C5: whatever fetches fail, the published list has one entry per
\* discovered project, and every field holds what its own fetch returned:
\* null when that fetch failed, the project's validated CLI output when it
\* did not.
C5_FailuresStayLocal ==
  cacheFrom # 0 =>
    LET poll == polls[cacheFrom] IN
    /\ Len(projects) = Len(poll.found)
    /\ \A j \in 1..Len(poll.found) :
         LET dir == poll.found[j].rootPath IN
         /\ projects[j].rootPath = dir
         /\ projects[j].name = poll.found[j].name
         /\ projects[j].status = OwnField(dir, "status", poll.fetches[<<j, "status">>].proc)
         /\ projects[j].tasks = OwnField(dir, "tasks", poll.fetches[<<j, "tasks">>].proc)
         /\ projects[j].profiles =
              OwnField(dir, "profiles", poll.fetches[<<j, "profiles">>].proc)
         /\ projects[j].activeProfile =
              ActiveProfileOf(OwnField(dir, "state", poll.fetches[<<j, "state">>].proc))

C5_Witness ==
  /\ cacheFrom # 0
  /\ Len(projects) = 2
  /\ projects[1].status = Null
  /\ projects[1].tasks # Null
  /\ projects[1].profiles # Null
  /\ projects[1].activeProfile # Null
  /\ projects[2].status # Null
  /\ projects[2].profiles = Null

\* the status input of the fetcher call, when the command succeeded with
\* a JSON object
StatusObjectCase ==
  /\ fcase.pc = "settled"
  /\ fcase.kind = "status"
  /\ fcase.proc.ev = "close"
  /\ fcase.proc.code = 0
  /\ fcase.proc.stdout.json
  /\ IsObj(fcase.proc.stdout.v)

NativeKeys == {"bareMetal", "native", "bare_metal"}

\* the key whose array is read as the native-process list
NativeKeyInEffect(v) ==
  IF Has(v, "bareMetal") THEN "bareMetal"
  ELSE IF Has(v, "native") THEN "native"
  ELSE "bare_metal"

EntryLacksField(e) ==
  IsObj(e) /\ \E k \in {"service", "rawName", "status", "type"} : ~Has(e, k)

ArrayLacksField(v, key) ==
  /\ Has(v, key)
  /\ IsArr(v.o[key])
  /\ \E n \in 1..Len(v.o[key].a) : EntryLacksField(v.o[key].a[n])

SomeEntryLacksField(v) ==
  ArrayLacksField(v, NativeKeyInEffect(v)) \/ ArrayLacksField(v, "docker")

SomeArrayFieldMissing(v) ==
  (\A k \in NativeKeys : ~Has(v, k)) \/ ~Has(v, "docker")

\* C6 as stated: an object that lacks one of the two array fields, or an
\* entry field, makes the status fetcher return null.
C6_MissingAnyFieldIsNull ==
  (StatusObjectCase /\ (SomeArrayFieldMissing(fcase.proc.stdout.v)
                        \/ SomeEntryLacksField(fcase.proc.stdout.v)))
    => fcase.out.ret = Null

\* C6 amended: an entry that lacks service, rawName, status or type makes
\* the status fetcher return null; a missing array field does not, it is
\* returned as the empty list.
C6_MissingEntryFieldIsNull ==
  StatusObjectCase =>
    LET v == fcase.proc.stdout.v IN
    /\ SomeEntryLacksField(v) => fcase.out.ret = Null
    /\ (fcase.out.ret # Null /\ \A k \in NativeKeys : ~Has(v, k)) =>
         fcase.out.ret.v.bareMetal = <<>>
    /\ (fcase.out.ret # Null /\ ~Has(v, "docker")) => fcase.out.ret.v.docker = <<>>
    /\ DOMAIN v.o = {} => fcase.out.ret = Some([bareMetal |-> <<>>, docker |-> <<>>])

C6_Witness ==
  /\ StatusObjectCase
  /\ fcase.proc.stdout.v =
       MkObj([bareMetal |-> JArr(<<MkObj([service |-> JStr("api"), status |-> JStr("up"),
                                          type |-> JStr("native")])>>),
              docker |-> JArr(<<>>)])
  /\ fcase.out.ret = Null

\* C7: a status, tasks or profiles field of a published entry is null
\* exactly when its fetch failed in the poll that produced the entry; a
\* fetch that succeeded with nothing to show gives an empty collection.
C7_NullIffFetchFailed ==
  cacheFrom # 0 =>
    LET poll == polls[cacheFrom] IN
    \A j \in 1..Len(projects) :
      /\ \A k \in {"status", "tasks", "profiles"} :
           LET field == IF k = "status" THEN projects[j].status
                        ELSE IF k = "tasks" THEN projects[j].tasks
                        ELSE projects[j].profiles
               proc == poll.fetches[<<j, k>>].proc
           IN /\ (field = Null) <=> FetchFailed(k, proc)
              /\ (~FetchFailed(k, proc) /\ proc.stdout.v = JArr(<<>>)) => field = Some(<<>>)
      /\ (~FetchFailed("status", poll.fetches[<<j, "status">>].proc)
          /\ poll.fetches[<<j, "status">>].proc.stdout.v = MkObj(<<>>))
           => projects[j].status = Some([bareMetal |-> <<>>, docker |-> <<>>])

C7_Witness ==
  /\ cacheFrom # 0
  /\ Len(projects) = 2
  /\ projects[2].status = Some([bareMetal |-> <<>>, docker |-> <<>>])
  /\ projects[2].tasks = Some(<<>>)
  /\ projects[2].profiles = Null
  /\ projects[1].tasks = Null

\* the object v with its native-process list moved from key from to key to
MoveKey(v, from, to) ==
  JObj([k \in (DOMAIN v.o \ {from}) \cup {to} |-> IF k = to THEN v.o[from] ELSE v.o[k]])

\* C8: an object that gives the native-process list under exactly one of
\* bareMetal, native, bare_metal is read the same under each of the three
\* keys, and a validated status has the keys bareMetal and docker only.
C8_AliasTransparency ==
  StatusObjectCase =>
    LET v == fcase.proc.stdout.v IN
    /\ \A from \in NativeKeys : \A to \in NativeKeys :
         (Has(v, from) /\ \A k \in NativeKeys \ {from} : ~Has(v, k)) =>
           getZapperStatusForProject(ProcClose(0, JsonText(MoveKey(v, from, to))))
             = fcase.out
    /\ fcase.out.ret # Null => DOMAIN fcase.out.ret.v = {"bareMetal", "docker"}

C8_Witness ==
  /\ StatusObjectCase
  /\ fcase.proc.stdout.v =
       MkObj([bare_metal |-> JArr(<<GoodEntry("bare_metal"), GoodEntry("docker")>>)])
  /\ fcase.out.ret # Null
  /\ Len(fcase.out.ret.v.bareMetal) = 2
  /\ fcase.out.ret.v.bareMetal[1].type = "native"

\* C9: when a poll completes, the cache is exactly that poll's result: one
\* entry per project the poll discovered, with the values the poll
\* fetched, and nothing of the previous cache.
C9_CacheReplacedWholesale ==
  [][\A i \in PollIds :
       (polls[i].phase # "done" /\ polls'[i].phase = "done") =>
         LET poll == polls'[i] IN
         /\ Len(projects') = Len(poll.found)
         /\ \A j \in 1..Len(poll.found) :
              /\ projects'[j].rootPath = poll.found[j].rootPath
              /\ projects'[j].name = poll.found[j].name
              /\ projects'[j].status = poll.fetches[<<j, "status">>].ret
              /\ projects'[j].tasks = poll.fetches[<<j, "tasks">>].ret
              /\ projects'[j].profiles = poll.fetches[<<j, "profiles">>].ret
              /\ projects'[j].activeProfile =
                   ActiveProfileOf(poll.fetches[<<j, "state">>].ret)]_vars

C9_Witness ==
  /\ cacheFrom = 2
  /\ writes[1] = 1
  /\ polls[1].found = polls[2].found
  /\ Len(polls[1].found) = 1
  /\ polls[1].fetches[<<1, "status">>].ret # Null
  /\ polls[2].fetches[<<1, "status">>].ret = Null
  /\ projects[1].status = Null

\* C10: the constructor starts exactly one poll and arms the 2-second
\* timer, and every run of the timer callback starts one further poll.
C10_OnePollThenTimer ==
  [][/\ (~constructed /\ constructed') =>
          (NumStarted' = 1 /\ ticks' = 0 /\ pollingInterval' = TimerArmed)
     /\ ticks' # ticks => (ticks' = ticks + 1 /\ NumStarted' = NumStarted + 1)]_vars

C10_Witness ==
  /\ constructed
  /\ ticks = 1
  /\ NumStarted = 2
  /\ pollingInterval = TimerArmed

\* C20: every entry of a validated status is tagged native or docker, and
\* the status with one bare_metal entry "api" yields one native entry
\* "api" with status "up" and no container entry.
C20_TypeTagsNormalised ==
  (fcase.pc = "settled" /\ fcase.kind = "status" /\ ~fcase.out.ret.null) =>
    LET status == fcase.out.ret.v IN
    /\ \A n \in 1..Len(status.bareMetal) :
         status.bareMetal[n].type \in {"native", "docker"}
    /\ \A n \in 1..Len(status.docker) :
         status.docker[n].type \in {"native", "docker"}
    /\ fcase.proc = ProcClose(0, JsonText(LegacyTagStatus)) =>
         /\ Len(status.bareMetal) = 1
         /\ status.bareMetal[1].service = "api"
         /\ status.bareMetal[1].status = "up"
         /\ status.bareMetal[1].type = "native"
         /\ Len(status.docker) = 0

C20_Witness ==
  /\ fcase.pc = "settled"
  /\ fcase.proc = ProcClose(0, JsonText(LegacyTagStatus))
  /\ ~fcase.out.ret.null
  /\ fcase.out.ret.v.bareMetal[1].type = "native"

\* the two orders in which the projects of a poll can complete
CompletionOrders(poll) ==
  {ord \in [1..Len(poll.found) -> 1..Len(poll.found)] :
     \A a, b \in 1..Len(poll.found) : ord[a] = ord[b] => a = b}

\* C18: the list a poll publishes is the list that would result from
\* every other order in which its projects could have completed.
C18_OrderIndependent ==
  \A i \in PollIds :
    polls[i].phase = "done" =>
      \A ord \in CompletionOrders(polls[i]) :
        getAllZapperStatuses([polls[i] EXCEPT !.order = ord]) = polls[i].published

C18_Witness ==
  /\ polls[1].phase = "done"
  /\ polls[1].order = <<2, 1>>
  /\ Len(polls[1].published) = 2
  /\ polls[1].published[1].rootPath = "/a"
  /\ polls[1].published[1].status = Null
  /\ polls[1].published[2].rootPath = "/b"

\* the directories discovered by a poll, and how its subprocesses ended
DirsOf(poll) == [j \in 1..Len(poll.found) |-> poll.found[j].rootPath]

OutcomesOf(poll) == [f \in FetchIds(poll) |-> poll.fetches[f].proc]

\* C19: two completed polls that discovered the same directories and saw
\* the same outcome of every command published equal lists.
C19_Idempotent ==
  \A i, k \in PollIds :
    (/\ polls[i].phase = "done"
     /\ polls[k].phase = "done"
     /\ DirsOf(polls[i]) = DirsOf(polls[k])
     /\ OutcomesOf(polls[i]) = OutcomesOf(polls[k]))
      => polls[i].published = polls[k].published

C19_Witness ==
  /\ polls[1].phase = "done"
  /\ polls[2].phase = "done"
  /\ DirsOf(polls[1]) = <<"/a">>
  /\ DirsOf(polls[2]) = <<"/a">>
  /\ OutcomesOf(polls[1]) = OutcomesOf(polls[2])
  /\ polls[1].published = polls[2].published
  /\ polls[1].published[1].tasks = Null
  /\ polls[1].published[1].status # Null

\* C22: once every started poll has completed, the cached list is the one
\* published by the poll that started last.
C22_NewestPollWins ==
  LET completed == {i \in PollIds : polls[i].phase = "done"} IN
  (completed # {} /\ InFlight = {}) =>
    \A i \in completed : i <= cacheFrom

\* C25: when getAllZapperStatuses rejects, the poll leaves the cached list
\* and the number of tree-change events as they were, and the timer stays
\* armed: the constructor arms it after a failed first poll, and a failed
\* poll of a tick or a refresh leaves it alone.
C25_RejectedPollChangesNothing ==
  [][\A i \in PollIds :
       (polls[i].phase # "failed" /\ polls'[i].phase = "failed") =>
         /\ projects' = projects
         /\ fired' = fired
         /\ pollingInterval' = IF constructed THEN pollingInterval ELSE TimerArmed]_vars

C25_Witness ==
  /\ polls[1].phase = "done"
  /\ Len(polls[1].found) = 1
  /\ polls[2].phase = "failed"
  /\ polls[2].published = <<>>
  /\ cacheFrom = 1
  /\ Len(projects) = 1
  /\ fired = 1
  /\ ticks = 1
  /\ pollingInterval = TimerArmed

\* C26: a poll that completes fires the tree-change event once, in the step
\* that leaves the cache holding this poll's result, and the event is fired
\* in no other step.
C26_FireOncePerPoll ==
  [][/\ \A i \in PollIds :
          (polls[i].phase # "done" /\ polls'[i].phase = "done") =>
            /\ fired' = fired + 1
            /\ cacheFrom' = i
            /\ projects' = getAllZapperStatuses(polls'[i])
     /\ fired' # fired =>
          \E i \in PollIds : polls[i].phase # "done" /\ polls'[i].phase = "done"]_vars

C26_Witness ==
  /\ polls[1].phase = "done"
  /\ polls[2].phase = "done"
  /\ fired = 2
  /\ cacheFrom = 2
  /\ Len(polls[1].published) = 1
  /\ Len(projects) = 1
  /\ projects # polls[1].published

\* C23: after dispose() a poll that was in flight changes neither the
\* cached list nor the number of tree-change events.
C23_ResultDiscardedAfterDispose ==
  [][(Disposed /\ NumStarted' = NumStarted) =>
       (projects' = projects /\ fired' = fired)]_vars

(***************************************************************************)
(* Properties of the command runner                                        *)
(***************************************************************************)
\* the child was launched, ran and has closed
RanAndClosed == run.proc = "closed" /\ run.handler = "idle"

\* stderr || stdout
StderrOrStdout == IF run.stderr # <<>> THEN run.stderr ELSE run.stdout

\* C11 as stated: after a non-zero exit the promise is rejected with an
\* error that carries the exit code, and stderr or else stdout.
C11_NonZeroExitCarriesCode ==
  (RanAndClosed /\ run.code # 0) =>
    /\ run.promise.state = "rejected"
    /\ "code" \in DOMAIN run.promise.error
    /\ run.promise.error.code = run.code
    /\ run.promise.error.text = StderrOrStdout

\* C11 amended: after a non-zero exit the promise is rejected with an
\* error that carries stderr, or stdout when stderr is empty; it carries
\* the exit code too unless stderr reports that node is missing, and then
\* it is the Node-not-found error, which carries no exit code.
C11_NonZeroExitRejects ==
  (RanAndClosed /\ run.code # 0) =>
    /\ run.promise.state = "rejected"
    /\ run.promise.error.text = StderrOrStdout
    /\ IF MentionsNode(run.stderr)
       THEN /\ run.promise.error.type = "NodeNotFound"
            /\ "code" \notin DOMAIN run.promise.error
       ELSE /\ run.promise.error.type = "CommandFailed"
            /\ run.promise.error.code = run.code

C11_Witness ==
  /\ RanAndClosed
  /\ run.code = 1
  /\ run.stderr = <<>>
  /\ run.stdout = <<"[">>
  /\ run.promise.state = "rejected"
  /\ run.promise.error.type = "CommandFailed"
  /\ run.promise.error.code = 1
  /\ run.promise.error.text = <<"[">>

\* C12: when the zap executable does not exist, the promise is rejected
\* with the executable-not-found error and its hint, never with a
\* command-failed error.
C12_MissingExecutableRejectsWithHint ==
  (run.launch = "zapMissing" /\ run.promise.state # "pending") =>
    /\ run.promise.state = "rejected"
    /\ run.promise.error.type = "ExecutableNotFound"

\* C13: a command run by a fetcher of a poll never opens a prompt.
C13_PollNeverPrompts == run.origin \in Kinds => run.dialogs = 0

\* C14: when the command of a user action fails, the action function
\* throws the runner's error, and the command handler shows one error
\* notification with it, no success notification, and does not refresh.
C14_ActionFailureShowsError ==
  /\ (run.origin \in ProfileActions /\ run.caller \in {"returned", "threw"}
      /\ run.promise.state = "rejected") =>
       /\ run.caller = "threw"
       /\ run.thrown = run.promise.error
  /\ (run.origin \in ServiceActions \cup GlobalActions /\ run.caller = "done"
      /\ run.promise.state = "rejected") =>
       /\ run.thrown = run.promise.error
       /\ Len(run.notes) = 1
       /\ run.notes[1].kind = "error"
       /\ run.notes[1].error = run.promise.error
       /\ run.refreshes = 0

C14_Witness ==
  /\ run.origin = "stop"
  /\ run.caller = "done"
  /\ run.promise.state = "rejected"
  /\ run.promise.error.type = "CommandFailed"
  /\ Len(run.notes) = 1
  /\ run.notes[1].kind = "error"

\* C15: when zapper.zapPath names an existing file, the command runs that
\* file as the zap executable.
C15_ConfiguredPathIsRun ==
  (run.spawns > 0 /\ run.userFile # NoPath) => CliOf(run.child) = run.userFile

RECURSIVE StdoutOf(_)
\* the stdout chunks of a sequence of data events, joined in order
StdoutOf(events) ==
  IF events = <<>> THEN <<>>
  ELSE (IF Head(events).stream = "stdout" THEN <<Head(events).data>> ELSE <<>>)
         \o StdoutOf(Tail(events))

\* C16: after an exit with code 0 the promise is resolved with the stdout
\* chunks joined in arrival order, and nothing of stderr.
C16_ExitZeroResolvesWithStdout ==
  (run.proc = "closed" /\ run.code = 0) =>
    /\ run.promise.state = "resolved"
    /\ run.promise.value = StdoutOf(run.arrived)

C16_Witness ==
  /\ run.proc = "closed"
  /\ run.code = 0
  /\ Len(run.arrived) = 2
  /\ run.arrived[1] = [stream |-> "stdout", data |-> "["]
  /\ run.arrived[2] = [stream |-> "stdout", data |-> "]"]
  /\ run.promise.value = <<"[", "]">>

\* C17: once the promise is resolved or rejected, no later event changes it.
C17_SettledOnce ==
  [][run.promise.state # "pending" => run'.promise = run.promise]_vars

C17_Witness ==
  /\ run.settleCalls = 2
  /\ run.proc = "closed"
  /\ run.promise.state = "rejected"
  /\ run.promise.error.type = "SpawnError"

\* C21: a fetcher call or an action call makes one spawn call: never more
\* than one while it runs, and exactly one when it has ended, also when the
\* command failed.
C21_OneSpawnPerCall ==
  /\ run.spawns <= 1
  /\ run.caller \in {"awaiting", "returned", "threw"} => run.spawns = 1
  /\ (run.caller = "done" /\ run.promise.state # "pending") => run.spawns = 1

C21_Witness ==
  /\ run.origin \in Kinds
  /\ run.caller = "done"
  /\ run.promise.state = "rejected"
  /\ run.ret = Return(Null)
  /\ run.spawns = 1

(***************************************************************************)
(* Properties of the tree view                                             *)
(***************************************************************************)
\* the active profile a `zap state` command reported: a name, which is not
\* empty, in an output that the fetcher accepted
ReportedActive(proc) ==
  IF FetchFailed("state", proc) THEN Null
  ELSE LET v == proc.stdout.v IN
       IF Has(v, "activeProfile") /\ IsStr(v.o["activeProfile"]) /\ v.o["activeProfile"].s # ""
       THEN Some(v.o["activeProfile"].s)
       ELSE Null

ProfilesShown ==
  tree.shown /\ tree.element.type = "section" /\ tree.element.sectionType = "profiles"

\* C27: the activeProfile of a published entry is the non-empty name the
\* state command reported and null in every other case, and the items of
\* a Profiles section are labelled and tagged active exactly for the
\* profiles of that name.
C27_ActiveProfile ==
  /\ \A j \in 1..Len(projects) :
       projects[j].activeProfile = ReportedActive(polls[cacheFrom].fetches[<<j, "state">>].proc)
  /\ ProfilesShown =>
       \E j \in 1..Len(projects) :
         /\ projects[j].name = tree.element.projectName
         /\ Len(tree.items) = Len(projects[j].profiles.v)
         /\ \A n \in 1..Len(tree.items) :
              LET profile == projects[j].profiles.v[n]
                  active == ReportedActive(polls[cacheFrom].fetches[<<j, "state">>].proc)
                              = Some(profile)
                  item == tree.items[n]
              IN /\ item.type = "profile"
                 /\ item.label = IF active THEN <<profile, "(active)">> ELSE <<profile>>
                 /\ item.status = IF active THEN "active" ELSE "inactive"
                 /\ item.contextValue = IF active THEN "profile-active" ELSE "profile-inactive"

C27_Witness ==
  /\ ProfilesShown
  /\ Len(tree.items) = 2
  /\ tree.items[1].label = <<"dev">>
  /\ tree.items[1].status = "inactive"
  /\ tree.items[2].label = <<"prod", "(active)">>
  /\ tree.items[2].contextValue = "profile-active"

RootShown == tree.shown /\ tree.element.type = "root"

ProjectItems == {n \in 1..Len(tree.items) : tree.items[n].type \in {"section", "project"}}

\* C28 as stated: with a non-empty cache the root has an item of a project,
\* and the placeholder is there exactly when the cache is empty.
C28_RootShowsProject ==
  RootShown =>
    /\ (\E n \in 1..Len(tree.items) : tree.items[n] = Placeholder) <=> projects = <<>>
    /\ projects # <<>> => ProjectItems # {}

\* the project has a native service, a container, a task or a profile
HasContent(project) ==
  \/ project.status # Null /\ project.status.v.bareMetal # <<>>
  \/ project.status # Null /\ project.status.v.docker # <<>>
  \/ project.tasks # Null /\ project.tasks.v # <<>>
  \/ project.profiles # Null /\ project.profiles.v # <<>>

\* C28 amended: with several projects cached the root has a project node
\* for each; with one project cached it has a section of the project
\* exactly when the project has a native service, a container, a task or a
\* profile; the placeholder is there exactly when the cache is empty.
C28_RootShowsProjectWithContent ==
  RootShown =>
    /\ (\E n \in 1..Len(tree.items) : tree.items[n] = Placeholder) <=> projects = <<>>
    /\ Len(projects) > 1 =>
         /\ Cardinality(ProjectItems) = Len(projects)
         /\ \A n \in ProjectItems : tree.items[n].type = "project"
    /\ Len(projects) = 1 =>
         /\ ProjectItems # {} <=> HasContent(projects[1])
         /\ \A n \in ProjectItems : tree.items[n].type = "section"

C28_Witness ==
  /\ RootShown
  /\ Len(projects) = 1
  /\ projects[1].status # Null
  /\ projects[1].tasks = Null
  /\ tree.items = <<>>

\* C29: a global action that has ended ran its command only when exactly
\* one project was discovered.  With none or several it made no spawn
\* call, showed one warning and did not refresh; with one it made one spawn
\* call for its command, and the success message and the refresh followed
\* exactly when the command succeeded.
C29_GlobalActionNeedsOneProject ==
  (run.origin \in GlobalActions /\ run.caller = "done") =>
    /\ run.discovered \in {0, 2} =>
         /\ run.spawns = 0
         /\ Len(run.notes) = 1
         /\ run.notes[1].kind = "warning"
         /\ run.refreshes = 0
    /\ run.spawns = 1 <=> run.discovered = 1
    /\ run.discovered = 1 =>
         /\ run.child.argv[Len(run.child.argv)] \in {"up", "down", "restart"}
         /\ Len(run.notes) = 1
         /\ run.promise.state = "resolved" =>
              /\ run.notes[1] = Note("info", SuccessText(run.origin), NoError)
              /\ run.refreshes = 1
         /\ run.promise.state = "rejected" =>
              /\ run.notes[1].kind = "error"
              /\ run.refreshes = 0

C29_Witness ==
  /\ run.origin = "stopAll"
  /\ run.caller = "done"
  /\ run.discovered = 2
  /\ run.spawns = 0
  /\ run.notes[1].kind = "warning"

\* C30: once a lookup has been attempted the cache of locateZapBinary never
\* changes again, and every call returns what the cache holds (the cached
\* path, or nothing after a lookup that failed), whatever auto-detection
\* would find by then.
C30_SearchOnce ==
  [][/\ run.cache.zapPathLookupAttempted => run'.cache = run.cache
     /\ \A n \in 1..Len(run'.located) : run'.located[n] = run'.cache.cachedZapPath]_vars

\* three calls during one command after a lookup that found nothing: the
\* error handler's call still returns nothing
C30_Witness ==
  /\ run.handler = "located"
  /\ Len(run.located) = 3
  /\ run.located[3] = NoPath
  /\ run.resolvedPath = NoPath
  /\ run.cache = [cachedZapPath |-> NoPath, zapPathLookupAttempted |-> TRUE]

\* C24: a fetcher call of a poll that has spawned its command eventually
\* completes, with a value or with a logged failure, once the child exits or
\* fails to launch; it does not wait for the answer to the prompt.
C24_PollCompletes ==
  (run.origin \in Kinds /\ run.caller = "awaiting")
    ~> (run.origin \in Kinds /\ run.caller = "done"
        /\ (run.ret = Return(Null) => run.logged = 1))

\* a fetcher call has completed while the prompt is still open
C24_Witness ==
  /\ run.origin \in Kinds
  /\ run.caller = "done"
  /\ run.handler = "dialog"
  /\ run.dialogs = 1
  /\ run.ret = Return(Null)
  /\ run.logged = 1

====
